---- MODULE Spec2Model ----
(***************************************************************************)
(* FormulaEvaluator (src/src/Engine/FormulaEvaluator.ts): a recursive      *)
(* descent evaluator over a tokenized spreadsheet formula.                 *)
(*                                                                         *)
(* The variables are the fields of one FormulaEvaluator instance, the      *)
(* number the last evaluate call returned, and three probes that record    *)
(* what the call did (first error recorded, evaluateFactor invocations,    *)
(* cell-store reads).  Every action is one whole call of                   *)
(* evaluate(formula).                                                      *)
(*                                                                         *)
(* Numbers.  A JavaScript number is modelled as a pair n/d: a reduced      *)
(* fraction with d > 0 for a finite value, 1/0 for Infinity, -1/0 for      *)
(* -Infinity and 0/0 for NaN.  -0 is identified with 0; the code only      *)
(* compares with "=== 0", which does not tell them apart.  Literals and    *)
(* stored cell values are 0 or powers of two, so within the bounds below   *)
(* every quotient that is used as an operand again is a dyadic fraction    *)
(* and IEEE double arithmetic on it is exact.                              *)
(***************************************************************************)
EXTENDS Integers, Sequences, FiniteSets

VARIABLES currentTokenIndex, errorOccurred, errorMessage, currentFormula,
          lastResult, result, pc, returned,
          firstError, factorCalls, lookups

vars == <<currentTokenIndex, errorOccurred, errorMessage, currentFormula,
          lastResult, result, pc, returned,
          firstError, factorCalls, lookups>>

(***************************************************************************)
(* Bounds                                                                  *)
(***************************************************************************)
\* every token sequence up to this length is an input of Spec
MaxLen == 4
\* every sentence of the grammar up to this length is an input of Spec
\* (a sentence has an odd number of tokens)
MaxSentenceLen == 7
\* every token sequence up to this length is an input of SpecReuse
MaxReuseLen == 2

(***************************************************************************)
(* JavaScript numbers                                                      *)
(***************************************************************************)
Zero == [n |-> 0, d |-> 1]
Infinity == [n |-> 1, d |-> 0]
NaN == [n |-> 0, d |-> 0]

Abs(x) == IF x < 0 THEN -x ELSE x
Sgn(x) == IF x < 0 THEN -1 ELSE IF x > 0 THEN 1 ELSE 0

\* the element of a one-element set; The({ e(r) : r \in {x} }) is e(x) with x
\* computed once
The(S) == CHOOSE x \in S : TRUE

RECURSIVE GCD(_, _)
GCD(a, b) == IF b = 0 THEN a ELSE GCD(b, a % b)

\* the finite number n/d (d # 0) in lowest terms with a positive denominator
Fraction(n, d) ==
    LET g == GCD(Abs(n), Abs(d))
    IN  [n |-> (Sgn(d) * n) \div g, d |-> Abs(d) \div g]

IsNaN(a) == a.d = 0 /\ a.n = 0

\* a + b
Add(a, b) ==
    IF IsNaN(a) \/ IsNaN(b) THEN NaN
    ELSE IF a.d = 0 /\ b.d = 0 THEN (IF a.n = b.n THEN a ELSE NaN)
    ELSE IF a.d = 0 THEN a
    ELSE IF b.d = 0 THEN b
    ELSE Fraction(a.n * b.d + b.n * a.d, a.d * b.d)

\* a - b
Sub(a, b) == Add(a, [n |-> -b.n, d |-> b.d])

\* a * b
Mul(a, b) ==
    IF IsNaN(a) \/ IsNaN(b) THEN NaN
    ELSE IF a.d = 0 \/ b.d = 0
         THEN (IF a.n = 0 \/ b.n = 0 THEN NaN
               ELSE [n |-> Sgn(a.n) * Sgn(b.n), d |-> 0])
    ELSE Fraction(a.n * b.n, a.d * b.d)

\* a / b
Div(a, b) ==
    IF IsNaN(a) \/ IsNaN(b) THEN NaN
    ELSE IF a.d = 0 /\ b.d = 0 THEN NaN
    ELSE IF a.d = 0 THEN [n |-> IF b.n < 0 THEN -a.n ELSE a.n, d |-> 0]
    ELSE IF b.d = 0 THEN Zero
    ELSE IF b.n = 0 THEN (IF a.n = 0 THEN NaN ELSE [n |-> Sgn(a.n), d |-> 0])
    ELSE Fraction(a.n * b.d, a.d * b.n)

\* value2 === 0
EqualsZero(a) == a.d # 0 /\ a.n = 0

(***************************************************************************)
(* Tokens, error messages and the cell store                               *)
(***************************************************************************)
\* what this._currentFormula[i] gives once i is past the last token
undefined == "undefined"

NumberTokens == {"0", "2"}
CellLabels == {"A1", "B1", "C1"}
Tokens == NumberTokens \cup CellLabels \cup {"+", "-", "*", "/", "(", ")"}

\* ErrorMessages of GlobalDefinitions
emptyFormula == "EmptyFormula"
invalidFormula == "InvalidFormula"
divideByZero == "DivideByZero"
invalidCell == "InvalidCell"

\* Number(token)
Number(token) ==
    IF token = "0" THEN Zero
    ELSE IF token = "2" THEN [n |-> 2, d |-> 1]
    ELSE NaN

\* the test written as Number(token) !== NaN, which is true of every token
isNumberNotEqualNaN(token) == TRUE

\* !isNaN(Number(token))
isNumber(token) == ~IsNaN(Number(token))

\* Cell.isValidCellLabel(token)
isValidCellLabel(token) == token \in CellLabels

isCellReference(token) == isValidCellLabel(token)

\* The sheet: A1 holds a computed value, B1 is an empty cell after a
\* recalculation, C1 holds a formula whose evaluation divided by zero.
sheetMemory ==
    [label \in CellLabels |->
        CASE label = "A1" -> [formula |-> <<"2", "+", "2">>,
                              value |-> [n |-> 4, d |-> 1], error |-> ""]
          [] label = "B1" -> [formula |-> <<>>,
                              value |-> Zero, error |-> emptyFormula]
          [] label = "C1" -> [formula |-> <<"2", "/", "0">>,
                              value |-> Infinity, error |-> divideByZero]]

getCellByLabel(label) == sheetMemory[label]

getCellValue(token) ==
    LET cell == getCellByLabel(token)
        formula == cell.formula
        error == cell.error
    IN  IF error # "" /\ error # emptyFormula THEN [value |-> Zero, error |-> error]
        ELSE IF Len(formula) = 0 THEN [value |-> Zero, error |-> invalidCell]
        ELSE [value |-> cell.value, error |-> ""]

(***************************************************************************)
(* The evaluator.  st is the instance: a record of its fields and probes.  *)
(***************************************************************************)
currentToken(st) ==
    IF st.currentTokenIndex < Len(st.currentFormula)
    THEN st.currentFormula[st.currentTokenIndex + 1]
    ELSE undefined

nextToken(st) == [st EXCEPT !.currentTokenIndex = @ + 1]

isCurrentToken(st, token) == currentToken(st) = token

\* this._errorMessage = msg; this._errorOccurred = true
recordError(st, msg) ==
    [st EXCEPT !.errorMessage = msg,
               !.errorOccurred = TRUE,
               !.firstError = IF @ = "" THEN msg ELSE @]

RECURSIVE evaluateExpression(_), expressionLoop(_, _), evaluateTerm(_),
          termLoop(_, _), evaluateFactor(_)

evaluateFactor(st0) ==
    LET st == [st0 EXCEPT !.factorCalls = @ + 1]
        token == currentToken(st)
    IN  IF isNumber(token)
        THEN [st |-> nextToken(st), value |-> Number(token)]
        ELSE IF isCellReference(token)
        THEN LET cv == getCellValue(token)
                 s1 == [st EXCEPT !.lookups = @ + 1]
                 s2 == IF cv.error # "" THEN recordError(s1, cv.error) ELSE s1
             IN  [st |-> nextToken(s2), value |-> cv.value]
        ELSE IF token = "("
        THEN The({ IF isCurrentToken(r.st, ")")
                   THEN [st |-> nextToken(r.st), value |-> r.value]
                   ELSE [st |-> recordError(r.st, invalidFormula), value |-> r.value]
                   : r \in {evaluateExpression(nextToken(st))} })
        ELSE [st |-> recordError(st, invalidFormula), value |-> Zero]

\* the while loop of evaluateTerm, entered with the value folded so far
termLoop(st, value) ==
    LET operator == currentToken(st)
    IN  IF operator = "*"
        THEN The({ termLoop(r.st, Mul(value, r.value))
                   : r \in {evaluateFactor(nextToken(st))} })
        ELSE IF operator = "/"
        THEN The({ IF EqualsZero(r.value)
                   THEN [st |-> [recordError(r.st, divideByZero)
                                   EXCEPT !.lastResult = Infinity],
                         value |-> Infinity]
                   ELSE termLoop(r.st, Div(value, r.value))
                   : r \in {evaluateFactor(nextToken(st))} })
        ELSE [st |-> st, value |-> value]

\* a term that is one factor: the loop over * and / left out
evaluateTermSingleFactor(st) == evaluateFactor(st)

evaluateTerm(st) ==
    The({ termLoop(r.st, r.value) : r \in {evaluateFactor(st)} })

\* the while loop of evaluateExpression, entered with the value folded so far
expressionLoop(st, value) ==
    LET operator == currentToken(st)
    IN  IF operator = "+"
        THEN The({ expressionLoop(r.st, Add(value, r.value))
                   : r \in {evaluateTerm(nextToken(st))} })
        ELSE IF operator = "-"
        THEN The({ expressionLoop(r.st, Sub(value, r.value))
                   : r \in {evaluateTerm(nextToken(st))} })
        ELSE [st |-> st, value |-> value]

evaluateExpression(st) ==
    The({ expressionLoop(r.st, r.value) : r \in {evaluateTerm(st)} })

\* the opening of evaluate without "this._currentTokenIndex = 0"
resetStateKeepsIndex(st, formula) ==
    [st EXCEPT !.currentFormula = formula,
               !.errorOccurred = FALSE,
               !.errorMessage = "",
               !.firstError = "",
               !.factorCalls = 0,
               !.lookups = 0]

\* the opening of evaluate without the two assignments that clear the error
resetStateKeepsError(st, formula) ==
    [st EXCEPT !.currentFormula = formula,
               !.currentTokenIndex = 0,
               !.firstError = "",
               !.factorCalls = 0,
               !.lookups = 0]

\* the four assignments that open evaluate, and the probes set back
resetState(st, formula) ==
    [st EXCEPT !.currentFormula = formula,
               !.currentTokenIndex = 0,
               !.errorOccurred = FALSE,
               !.errorMessage = "",
               !.firstError = "",
               !.factorCalls = 0,
               !.lookups = 0]

\* the trailing-token test with > written for !==
trailingTokensPastEnd(st, formula) ==
    st.currentTokenIndex > Len(formula) /\ ~st.errorOccurred

\* the test that guards the trailing-token error of evaluate
trailingTokens(st, formula) ==
    st.currentTokenIndex # Len(formula) /\ ~st.errorOccurred

\* evaluate(formula) on instance st: the instance afterwards and the number returned
evaluate(st, formula) ==
    LET s0 == resetState(st, formula)
    IN  IF Len(formula) = 0
        THEN [st |-> [s0 EXCEPT !.errorMessage = emptyFormula,
                                !.firstError = emptyFormula],
              value |-> Zero]
        ELSE The({ LET s1 == [r.st EXCEPT !.result = r.value, !.lastResult = r.value]
                   IN  IF trailingTokens(s1, formula)
                       THEN [st |-> [s1 EXCEPT !.errorMessage = invalidFormula,
                                               !.firstError = IF @ = "" THEN invalidFormula
                                                              ELSE @],
                             value |-> Zero]
                       ELSE [st |-> s1, value |-> s1.result]
                   : r \in {evaluateExpression(s0)} })

(***************************************************************************)
(* Inputs                                                                  *)
(***************************************************************************)
SeqsUpTo(n) == UNION {[1..k -> Tokens] : k \in 0..n}

Operators == {"+", "-", "*", "/"}

Leaves == {<<t>> : t \in NumberTokens \cup CellLabels}

Parenthesised(E) == {<<"(">> \o x \o <<")">> : x \in E}

Joined(L, ops, R) == {x \o <<op>> \o y : x \in L, op \in ops, y \in R}

\* table[k], k in 1..n-1, holds the sentences of the grammar exactly k tokens
\* long, as expressions (e), terms (t) and factors (f); this is the entry for n
SentencesOfLen(table, n) ==
    LET f == IF n = 1 THEN Leaves
             ELSE IF n >= 3 THEN Parenthesised(table[n - 2].e)
             ELSE {}
        t == f \cup UNION {Joined(table[k].t, {"*", "/"}, table[n - 1 - k].f)
                           : k \in 1..(n - 2)}
        e == t \cup UNION {Joined(table[k].e, {"+", "-"}, table[n - 1 - k].t)
                           : k \in 1..(n - 2)}
    IN  [e |-> e, t |-> t, f |-> f]

RECURSIVE SentenceTable(_)
SentenceTable(n) ==
    IF n = 0 THEN <<>>
    ELSE The({ Append(table, SentencesOfLen(table, n))
               : table \in {SentenceTable(n - 1)} })

\* the sentences short enough to be an operand of a longer sentence
OperandTable == SentenceTable(MaxSentenceLen - 2)

\* the sentences of at most n tokens, n <= MaxSentenceLen - 2
Operands(n) == UNION {OperandTable[k].e : k \in 1..n}

ReuseFormulas ==
    SeqsUpTo(MaxReuseLen) \cup
    { <<"2", "/", "0">>, <<"2", "+", "2", "2">>, <<"(", "2", "+", "2">>,
      <<"0", "-", "2", "/", "0">>, <<"A1", "*", "2">>, <<"B1", "+", "2">> }

(***************************************************************************)
(* The state machine                                                       *)
(***************************************************************************)
\* the instance as a record
Self ==
    [currentTokenIndex |-> currentTokenIndex, errorOccurred |-> errorOccurred,
     errorMessage |-> errorMessage, currentFormula |-> currentFormula,
     lastResult |-> lastResult, result |-> result,
     firstError |-> firstError, factorCalls |-> factorCalls, lookups |-> lookups]

\* the instance right after construction
Fresh ==
    [currentTokenIndex |-> 0, errorOccurred |-> FALSE,
     errorMessage |-> "", currentFormula |-> <<>>,
     lastResult |-> Zero, result |-> Zero,
     firstError |-> "", factorCalls |-> 0, lookups |-> 0]

Init ==
    /\ currentTokenIndex = Fresh.currentTokenIndex
    /\ errorOccurred = Fresh.errorOccurred
    /\ errorMessage = Fresh.errorMessage
    /\ currentFormula = Fresh.currentFormula
    /\ lastResult = Fresh.lastResult
    /\ result = Fresh.result
    /\ firstError = Fresh.firstError
    /\ factorCalls = Fresh.factorCalls
    /\ lookups = Fresh.lookups
    /\ pc = "constructed"
    /\ returned = Zero

\* one call of evaluate(formula)
Evaluate(formula) ==
    \E r \in {evaluate(Self, formula)} :
        /\ currentTokenIndex' = r.st.currentTokenIndex
        /\ errorOccurred' = r.st.errorOccurred
        /\ errorMessage' = r.st.errorMessage
        /\ currentFormula' = r.st.currentFormula
        /\ lastResult' = r.st.lastResult
        /\ result' = r.st.result
        /\ firstError' = r.st.firstError
        /\ factorCalls' = r.st.factorCalls
        /\ lookups' = r.st.lookups
        /\ pc' = "returned"
        /\ returned' = r.value

\* a fresh instance evaluates any token sequence of at most MaxLen tokens
EvaluateTokens ==
    /\ pc = "constructed"
    /\ \E formula \in SeqsUpTo(MaxLen) : Evaluate(formula)

\* a fresh instance evaluates two sentences joined by an operator, which is a
\* sentence again, of at most MaxSentenceLen tokens
EvaluateOperation ==
    /\ pc = "constructed"
    /\ \E n \in 1..(MaxSentenceLen - 2) :
         \E left \in OperandTable[n].e, op \in Operators,
            right \in Operands(MaxSentenceLen - 1 - n) :
              Evaluate(left \o <<op>> \o right)

\* a fresh instance evaluates a sentence in parentheses
EvaluateGroup ==
    /\ pc = "constructed"
    /\ \E inner \in Operands(MaxSentenceLen - 2) :
         Evaluate(<<"(">> \o inner \o <<")">>)

\* an instance, fresh or used, evaluates one more formula
EvaluateAgain == \E formula \in ReuseFormulas : Evaluate(formula)

Next == EvaluateTokens \/ EvaluateOperation \/ EvaluateGroup

Spec == Init /\ [][Next]_vars

NextReuse == EvaluateAgain

SpecReuse == Init /\ [][NextReuse]_vars

(***************************************************************************)
(* The usual reading of a formula, defined on the token sequence itself:   *)
(* split at the LAST operator of the lowest precedence that is outside all *)
(* parentheses.  ok: the tokens are a sentence of the grammar.  defined:   *)
(* every referenced cell has a formula and no error, and no division has   *)
(* a right operand equal to 0.  value: the value, when ok and defined.     *)
(***************************************************************************)
ParenDepth(s, i) ==
    Cardinality({j \in 1..(i - 1) : s[j] = "("})
        - Cardinality({j \in 1..(i - 1) : s[j] = ")"})

TopLevel(s, ops) == {i \in 1..Len(s) : s[i] \in ops /\ ParenDepth(s, i) = 0}

Last(S) == CHOOSE i \in S : \A j \in S : j <= i

NoMeaning == [ok |-> FALSE, defined |-> FALSE, value |-> Zero]

Apply(op, a, b) ==
    CASE op = "+" -> Add(a, b)
      [] op = "-" -> Sub(a, b)
      [] op = "*" -> Mul(a, b)
      [] op = "/" -> Div(a, b)

Combine(op, l, r) ==
    IF ~(l.ok /\ r.ok) THEN NoMeaning
    ELSE IF ~(l.defined /\ r.defined) \/ (op = "/" /\ EqualsZero(r.value))
         THEN [ok |-> TRUE, defined |-> FALSE, value |-> Zero]
    ELSE [ok |-> TRUE, defined |-> TRUE, value |-> Apply(op, l.value, r.value)]

RECURSIVE MeaningOfExpression(_), MeaningOfTerm(_), MeaningOfFactor(_)

MeaningOfFactor(s) ==
    IF Len(s) = 1 /\ s[1] \in NumberTokens
    THEN [ok |-> TRUE, defined |-> TRUE,
          value |-> IF s[1] = "0" THEN Zero ELSE [n |-> 2, d |-> 1]]
    ELSE IF Len(s) = 1 /\ s[1] \in CellLabels
    THEN [ok |-> TRUE,
          defined |-> sheetMemory[s[1]].formula # <<>> /\ sheetMemory[s[1]].error = "",
          value |-> sheetMemory[s[1]].value]
    ELSE IF Len(s) >= 3 /\ s[1] = "(" /\ s[Len(s)] = ")"
    THEN MeaningOfExpression(SubSeq(s, 2, Len(s) - 1))
    ELSE NoMeaning

MeaningOfTerm(s) ==
    IF TopLevel(s, {"*", "/"}) = {} THEN MeaningOfFactor(s)
    ELSE LET i == Last(TopLevel(s, {"*", "/"}))
         IN  The({ Combine(s[i], l, r)
                   : l \in {MeaningOfTerm(SubSeq(s, 1, i - 1))},
                     r \in {MeaningOfFactor(SubSeq(s, i + 1, Len(s)))} })

MeaningOfExpression(s) ==
    IF TopLevel(s, {"+", "-"}) = {} THEN MeaningOfTerm(s)
    ELSE LET i == Last(TopLevel(s, {"+", "-"}))
         IN  The({ Combine(s[i], l, r)
                   : l \in {MeaningOfExpression(SubSeq(s, 1, i - 1))},
                     r \in {MeaningOfTerm(SubSeq(s, i + 1, Len(s)))} })

Meaning(s) == MeaningOfExpression(s)

Returned == pc = "returned"

(***************************************************************************)
(* Claims                                                                  *)
(***************************************************************************)

\* C1: for a formula that is a sentence of the grammar, whose referenced
\* cells all have a formula and no error and in which no division has a
\* right operand equal to 0, evaluate returns the value of the usual reading
\* and leaves the error empty.
C1_SentenceValue ==
    Returned =>
        \A m \in {Meaning(currentFormula)} :
            (m.ok /\ m.defined) => (returned = m.value /\ errorMessage = "")

\* a parenthesised sum is multiplied: ( 2 + A1 ) * 2 = 12
C1_Witness ==
    /\ Returned
    /\ currentFormula = <<"(", "2", "+", "A1", ")", "*", "2">>
    /\ returned = [n |-> 12, d |-> 1]
    /\ errorMessage = ""

\* C2: evaluate of the empty token sequence returns 0 with error
\* EmptyFormula, runs no grammar step, leaves the cursor at 0 and does not
\* read the cell store.
C2_EmptyFormula ==
    (Returned /\ currentFormula = <<>>) =>
        /\ returned = Zero
        /\ errorMessage = emptyFormula
        /\ currentTokenIndex = 0
        /\ factorCalls = 0
        /\ lookups = 0

\* the empty formula is evaluated on an instance whose earlier call left a
\* result, hence a cursor, behind
C2_Witness ==
    /\ Returned
    /\ currentFormula = <<>>
    /\ result # Zero
    /\ errorMessage = emptyFormula

\* C3: whenever evaluate finishes with error DivideByZero, the number it
\* returns is positive infinity, also when the division by zero is an operand
\* of a further +, - or * or lies inside parentheses.  Stated for the
\* sentences of the grammar that reference no cell: there DivideByZero can
\* only come from a division of the formula itself (a DivideByZero stored on
\* a referenced cell is forwarded with value 0 by getCellValue).
C3_DivideByZeroInfinity ==
    (Returned /\ errorMessage = divideByZero /\ lookups = 0
              /\ Meaning(currentFormula).ok) => returned = Infinity

\* C4: when the top-level expression parses without an error but stops
\* before the last token, evaluate reports InvalidFormula and returns the
\* value of the prefix that was consumed.
C4_TrailingTokensValue ==
    (Returned /\ ~errorOccurred /\ currentTokenIndex < Len(currentFormula)) =>
        /\ errorMessage = invalidFormula
        /\ returned = Meaning(SubSeq(currentFormula, 1, currentTokenIndex)).value

\* C5: the error reported when evaluate returns is the first error recorded
\* during the call.
C5_FirstErrorReported ==
    (Returned /\ Len(currentFormula) > 0) => errorMessage = firstError

\* what C6 says a lookup of the cell gives
ClaimedLookup(label) ==
    IF sheetMemory[label].error # "" /\ sheetMemory[label].error # emptyFormula
    THEN [value |-> Zero, error |-> sheetMemory[label].error]
    ELSE IF sheetMemory[label].formula = <<>>
    THEN [value |-> Zero, error |-> invalidCell]
    ELSE [value |-> sheetMemory[label].value, error |-> ""]

\* a single reference, or a reference and a non-zero number joined by one operator
ReferenceFormulas(label) ==
    {<<label>>} \cup {<<label, op, "2">> : op \in Operators}
                \cup {<<"2", op, label>> : op \in Operators}

\* C6: getCellValue gives (0, E) for a stored error E other than
\* EmptyFormula, else (0, InvalidCell) for an empty stored formula, else
\* (stored value, ""); a formula that is a single reference, or a reference
\* combined with well-formed arithmetic, reports exactly that error.
C6_ReferenceError ==
    /\ \A label \in CellLabels : getCellValue(label) = ClaimedLookup(label)
    /\ \A label \in CellLabels :
         (Returned /\ currentFormula \in ReferenceFormulas(label)) =>
             errorMessage = ClaimedLookup(label).error

\* C7: after any evaluate call, an empty error means the cursor equals the
\* length of the formula.
C7_CursorExhausted ==
    (Returned /\ errorMessage = "") => currentTokenIndex = Len(currentFormula)

\* a seven-token formula was evaluated without error
C7_Witness ==
    /\ Returned
    /\ errorMessage = ""
    /\ Len(currentFormula) = 7
    /\ currentTokenIndex = 7

\* C8: whatever calls came before, evaluate returns the number and leaves
\* the error message that a fresh instance gives for the same formula.
C8_NoLeak ==
    Returned =>
        \A fresh \in {evaluate(Fresh, currentFormula)} :
            /\ returned = fresh.value
            /\ errorMessage = fresh.st.errorMessage

\* the empty formula is evaluated on an instance whose earlier call ended in
\* DivideByZero (its Infinity is still in lastResult), and the call returns
\* what a fresh instance returns
C8_Witness ==
    /\ Returned
    /\ currentFormula = <<>>
    /\ lastResult = Infinity
    /\ returned = Zero
    /\ errorMessage = emptyFormula

\* C9: evaluate terminates having consumed at most length(formula) tokens:
\* the cursor never passes the end, and every evaluateFactor invocation but
\* the first follows a token consumed for it.
C9_BoundedSteps ==
    Returned =>
        /\ currentTokenIndex <= Len(currentFormula)
        /\ factorCalls <= currentTokenIndex + 1

\* every token was consumed and the descent ran one more factor than tokens
C9_Witness ==
    /\ Returned
    /\ Len(currentFormula) = MaxLen
    /\ currentTokenIndex = Len(currentFormula)
    /\ factorCalls = currentTokenIndex + 1

\* C10: after every evaluate call the result getter gives the number the
\* call returned.
C10_ResultGetter ==
    Returned => result = returned

====
